---- MODULE Spec2Model ----
(***************************************************************************)
(* Corpus management of the fuzzer (afl/src/corpus/mod.rs): the Corpus     *)
(* trait's default operations, the InMemoryCorpus and OnDiskCorpus         *)
(* backends and the QueueCorpus scheduler wrapping one of them.            *)
(*                                                                         *)
(* One behaviour is the life of one corpus value: Init is the value just   *)
(* constructed by InMemoryCorpus::new, OnDiskCorpus::new or                *)
(* QueueCorpus::new(backend); every step is one call of a method of the    *)
(* Corpus trait on it.  A call that panics ends the behaviour.             *)
(*                                                                         *)
(* Indices are 0-based as in the source; entries[i + 1] is the source's    *)
(* entries[i].  Option values are sequences: None is <<>>, Some(x) <<x>>.  *)
(***************************************************************************)
EXTENDS Integers, Sequences, FiniteSets, TLC

\* -------------------------------------------------------------- bounds
\* Longest entry vector explored under all calls (Spec, SpecHistory): add
\* is not called on a longer one.
MaxEntries == 2
\* Longest entry vector explored under the calls that add, remove and
\* select entries (SpecOrder), where the order of the entries that a
\* removal leaves can be seen.
MaxOrderEntries == 3
\* Largest value of QueueCorpus.pos explored on an empty corpus, where
\* every failing next increments it (usize, far from overflow).
MaxPos == 2
\* Largest value of QueueCorpus.cycles explored (u64, far from overflow).
MaxCycles == 1

\* -------------------------------------------------------------- values
None == <<>>
Some(x) == <<x>>
IsSome(o) == o # None
Unwrap(o) == o[1]

\* Input payloads (BytesInput) the callers hand in or the disk holds.
Inputs == { <<0, 0, 0, 0>> }
\* Filenames callers give explicitly (Testcase::with_filename).
UserFilenames == { "fancyfile" }

\* A path (PathBuf): its text and whether its bytes are valid UTF-8 (for
\* one that is not, the text is a rendering of the bytes).
Path(str, utf8) == [str |-> str, utf8 |-> utf8]
\* The directories an OnDiskCorpus is constructed with (OnDiskCorpus::new
\* takes any PathBuf): the one of the source's test, and one whose last
\* component is the single byte 0xFF, which is not UTF-8.
DirPaths == { Path("fancy/path", TRUE), Path("fancy/<FF>", FALSE) }
\* Whether a text begins, or ends, with the separator.
StartsWithSep(str) == Len(str) > 0 /\ SubSeq(str, 1, 1) = "/"
EndsWithSep(str) == Len(str) > 0 /\ SubSeq(str, Len(str), Len(str)) = "/"
\* Path::join(name) with a UTF-8 name (PathBuf::push on Unix): an absolute
\* name replaces the path; otherwise a separator is put in only when the
\* path is not empty and does not end in one, and the name is appended.
PathJoin(p, name) ==
    IF StartsWithSep(name)
    THEN Path(name, TRUE)
    ELSE Path(p.str \o (IF Len(p.str) > 0 /\ ~EndsWithSep(p.str)
                        THEN "/" ELSE "") \o name,
              p.utf8)
\* Path::to_str: the text, or None when the path is not valid UTF-8
PathToStr(p) == IF p.utf8 THEN Some(p.str) ELSE None

\* Testcase<I>: the optional input and the optional filename.
Testcase(input, filename) == [input |-> input, filename |-> filename]
\* The testcases a caller can construct and hand to add or replace.
NewTestcases ==
    { Testcase(i, f) : i \in {None} \cup { Some(x) : x \in Inputs },
                       f \in {None} \cup { Some(x) : x \in UserFilenames } }

Backends == { "InMemoryCorpus", "OnDiskCorpus" }

\* Address of slot i of the entries vector, relative to the vector's
\* buffer, in units of one Testcase; Foreign is the address of a Testcase
\* that lives outside the buffer.
SlotAddr(i) == i
Foreign == -1
\* References a caller can pass to remove.
Refs == { SlotAddr(i) : i \in 0 .. MaxOrderEntries } \cup { Foreign }

VARIABLES
    backend,    \* the storage backend: InMemoryCorpus or OnDiskCorpus
    dirPath,    \* OnDiskCorpus.dir_path (None in an InMemoryCorpus)
    wrapped,    \* TRUE iff the value is a QueueCorpus wrapping the backend
    entries,    \* backend.entries
    corpusPos,  \* backend.pos (InMemoryCorpus.pos / OnDiskCorpus.pos)
    pos,        \* QueueCorpus.pos
    cycles,     \* QueueCorpus.cycles
    ret,        \* the last call: its name, result, index and testcase
    fresh,      \* history: the calls made since construction, while they
                \* are only adds followed by only nexts
    lastNext,   \* history (SpecHistory): the index the most recent
                \* successful next returned
    assigned    \* history (SpecHistory): the filenames OnDiskCorpus::add
                \* has assigned so far

vars == << backend, dirPath, wrapped, entries, corpusPos, pos, cycles, ret,
           fresh, lastNext, assigned >>

\* ------------------------------------------------------ pure operations
\* Corpus::count
Count(es) == Len(es)

\* Corpus::get: &self.entries()[idx], which panics for idx >= len
GetPanics(es, idx) == idx >= Len(es)
Get(es, idx) == es[idx + 1]

\* The bounds check of Corpus::replace: len < idx
ReplaceRejects(es, idx) == Len(es) < idx

\* Mutant of replace: the testcase is inserted at idx (Vec::insert)
\* instead of overwriting the entry there.
ReplaceResult_Inserts(es, idx, t) ==
    IF ReplaceRejects(es, idx)
    THEN [res |-> "KeyNotFound", entries |-> es]
    ELSE IF idx >= Len(es)
         THEN [res |-> "panic", entries |-> es]
         ELSE [res |-> "Ok",
               entries |-> SubSeq(es, 1, idx) \o << t >> \o SubSeq(es, idx + 1, Len(es))]

\* Corpus::replace on the entries: the result and the entries after it.
\* An index equal to len passes the check and panics in the indexing.
ReplaceResult(es, idx, t) ==
    IF ReplaceRejects(es, idx)
    THEN [res |-> "KeyNotFound", entries |-> es]
    ELSE IF idx >= Len(es)
         THEN [res |-> "panic", entries |-> es]
         ELSE [res |-> "Ok", entries |-> [es EXCEPT ![idx + 1] = t]]

\* entries().iter().position(|x| ptr::eq(x, entry)): the index of the slot
\* whose address is the reference's.
Position(es, ref) ==
    IF \E i \in 0 .. Len(es) - 1 : SlotAddr(i) = ref
    THEN Some(CHOOSE i \in 0 .. Len(es) - 1 : SlotAddr(i) = ref)
    ELSE None

\* Mutant of Vec::remove: Vec::swap_remove, the last entry is moved into
\* slot i and the entries after i are not shifted.
VecRemove_Swaps(es, i) ==
    SubSeq([es EXCEPT ![i + 1] = es[Len(es)]], 1, Len(es) - 1)

\* Vec::remove(i): the later entries shift down by one.
VecRemove(es, i) == SubSeq(es, 1, i) \o SubSeq(es, i + 2, Len(es))

\* Corpus::remove on the entries: the returned option and the entries.
RemoveResult(es, ref) ==
    LET p == Position(es, ref) IN
    IF IsSome(p)
    THEN [tc |-> Some(Get(es, Unwrap(p))), entries |-> VecRemove(es, Unwrap(p))]
    ELSE [tc |-> None, entries |-> es]

\* Rand::below(n): the indices a draw below n can give.
Below(n) == 0 .. n - 1

\* Testcase::load_from_disk(filename): the results it can have, a
\* persistence error or a testcase holding the input read.
LoadFromDisk(filename) ==
    { [res |-> "PersistenceError", tc |-> None] } \cup
    { [res |-> "Ok", tc |-> Some(Testcase(Some(i), f))] :
        i \in Inputs, f \in { None, Some(filename) } }

\* Mutant of load_testcase: the entry's filename is taken out of the slot
\* before the load and is not put back when the load fails.
LoadTestcaseResult_TakesFilename(es, idx, ld) ==
    LET testcase == Get(es, idx)
        taken == [es EXCEPT ![idx + 1].filename = None]
    IN
    IF IsSome(testcase.input)
    THEN [res |-> "Ok", entries |-> es]
    ELSE IF ~IsSome(testcase.filename)
         THEN [res |-> "IllegalState", entries |-> es]
         ELSE IF ld.res # "Ok"
              THEN [res |-> ld.res, entries |-> taken]
              ELSE ReplaceResult(es, idx, Unwrap(ld.tc))

\* Corpus::load_testcase for idx < count, given what load_from_disk did
\* (ld is unused when the entry has an input or has no filename).
LoadTestcaseResult(es, idx, ld) ==
    LET testcase == Get(es, idx) IN
    IF IsSome(testcase.input)
    THEN [res |-> "Ok", entries |-> es]
    ELSE IF ~IsSome(testcase.filename)
         THEN [res |-> "IllegalState", entries |-> es]
         ELSE IF ld.res # "Ok"
              THEN [res |-> ld.res, entries |-> es]
              ELSE ReplaceResult(es, idx, Unwrap(ld.tc))

\* Mutant of the naming scheme: the number is the count after the add.
IdFilename_OneBased(dir, len) ==
    PathToStr(PathJoin(dir, "id_" \o ToString(len + 1)))

\* self.dir_path.join(format!("id_{}", len)).to_str(): the name as a
\* string, None when the joined path is not valid UTF-8.
IdFilename(dir, len) == PathToStr(PathJoin(dir, "id_" \o ToString(len)))

\* Mutant of OnDiskCorpus::add: no filename is assigned.
OnDiskStored_KeepsNone(dir, es, t) == [res |-> "Ok", tc |-> t]

\* OnDiskCorpus::add up to the push: the testcase as it will be stored,
\* or the panic of expect("Invalid Path") when to_str gave None.
OnDiskStored(dir, es, t) ==
    IF IsSome(t.filename)
    THEN [res |-> "Ok", tc |-> t]
    ELSE LET filename_str == IdFilename(dir, Len(es)) IN
         IF IsSome(filename_str)
         THEN [res |-> "Ok", tc |-> [t EXCEPT !.filename = filename_str]]
         ELSE [res |-> "panic", tc |-> t]

\* Mutants of the wrap test: wrapping one call early, one call late.
QueueWraps_Early(p, n) == p >= n
QueueWraps_Late(p, n) == p > n + 1

\* QueueCorpus::next, the wrap test: self.pos > self.corpus.count()
QueueWraps(p, n) == p > n

\* Mutants of QueueCorpus::next: an empty corpus resets the cycle count;
\* the cursor wraps to 0 instead of 1.
QueueNextResult_ResetsOnEmpty(p, c, n) ==
    LET p1 == p + 1 IN
    IF n = 0
    THEN [res |-> "Empty", pos |-> p1, cycles |-> 0]
    ELSE IF QueueWraps(p1, n)
         THEN [res |-> "Ok", pos |-> 1, cycles |-> c + 1]
         ELSE [res |-> "Ok", pos |-> p1, cycles |-> c]
QueueNextResult_WrapsToZero(p, c, n) ==
    LET p1 == p + 1 IN
    IF n = 0
    THEN [res |-> "Empty", pos |-> p1, cycles |-> c]
    ELSE IF QueueWraps(p1, n)
         THEN [res |-> "Ok", pos |-> 0, cycles |-> c + 1]
         ELSE [res |-> "Ok", pos |-> p1, cycles |-> c]

\* QueueCorpus::next on a corpus of n entries: the result, pos and cycles
\* after the call.
QueueNextResult(p, c, n) ==
    LET p1 == p + 1 IN
    IF n = 0
    THEN [res |-> "Empty", pos |-> p1, cycles |-> c]
    ELSE IF QueueWraps(p1, n)
         THEN [res |-> "Ok", pos |-> 1, cycles |-> c + 1]
         ELSE [res |-> "Ok", pos |-> p1, cycles |-> c]

\* current_testcase: the index it reads, or None where it panics
\* (pos - 1 underflows, or get indexes out of bounds).
QueueCurrentIdx(p, n) == IF p >= 1 /\ p - 1 < n THEN Some(p - 1) ELSE None
BackendCurrentIdx(p, n) == IF p < n THEN Some(p) ELSE None

\* ------------------------------------------------------------- returns
\* What a call returned: its name, its result, the index returned (for
\* next, random_entry, current_testcase: the reference returned is the one
\* to the slot at that index) or passed (replace, load_testcase; for
\* remove the address passed), and the testcase moved (the one removed by
\* remove, the one passed to add or replace).
Ret(op, res, idx, tc) == [op |-> op, res |-> res, idx |-> idx, tc |-> tc]
Panicked == ret.res = "panic"

\* fresh, once a call other than add-then-next has been made
Other == [phase |-> "other", nexts |-> 0]

\* ---------------------------------------------------------------- Init
Init ==
    /\ backend \in Backends
    /\ dirPath \in IF backend = "OnDiskCorpus"
                   THEN { Some(d) : d \in DirPaths } ELSE { None }
    /\ wrapped \in BOOLEAN
    /\ entries = << >>
    /\ corpusPos = 0
    /\ pos = 0
    /\ cycles = 0
    /\ ret = Ret("new", "Ok", None, None)
    /\ fresh = [phase |-> "adds", nexts |-> 0]
    /\ lastNext = None
    /\ assigned = {}

\* ------------------------------------------------------------- actions
\* Corpus::add (the default, used by InMemoryCorpus; QueueCorpus::add
\* delegates to it)
CorpusAdd(t) ==
    /\ ~Panicked
    /\ backend = "InMemoryCorpus"
    /\ entries' = Append(entries, t)
    /\ ret' = Ret("add", "Ok", None, Some(t))
    /\ fresh' = IF fresh.phase = "adds" THEN fresh ELSE Other
    /\ UNCHANGED << backend, dirPath, wrapped, corpusPos, pos, cycles >>

\* OnDiskCorpus::add (QueueCorpus::add delegates to it): the push, unless
\* naming the testcase panicked.
OnDiskAdd(t) ==
    /\ ~Panicked
    /\ backend = "OnDiskCorpus"
    /\ LET r == OnDiskStored(Unwrap(dirPath), entries, t) IN
        /\ entries' = IF r.res = "Ok" THEN Append(entries, r.tc) ELSE entries
        /\ ret' = Ret("add", r.res, None, Some(t))
    /\ fresh' = IF fresh.phase = "adds" THEN fresh ELSE Other
    /\ UNCHANGED << backend, dirPath, wrapped, corpusPos, pos, cycles >>

\* Corpus::replace
Replace(idx, t) ==
    /\ ~Panicked
    /\ LET r == ReplaceResult(entries, idx, t) IN
        /\ entries' = r.entries
        /\ ret' = Ret("replace", r.res, Some(idx), Some(t))
    /\ fresh' = Other
    /\ UNCHANGED << backend, dirPath, wrapped, corpusPos, pos, cycles >>

\* Mutant of remove: a QueueCorpus steps its cursor back when an entry
\* is removed.
Remove_AdjustsPos(ref) ==
    /\ ~Panicked
    /\ LET r == RemoveResult(entries, ref) IN
        /\ entries' = r.entries
        /\ ret' = Ret("remove", IF IsSome(r.tc) THEN "Some" ELSE "None",
                      Some(ref), r.tc)
        /\ pos' = IF IsSome(r.tc) /\ pos > 0 THEN pos - 1 ELSE pos
    /\ fresh' = Other
    /\ UNCHANGED << backend, dirPath, wrapped, corpusPos, cycles >>

\* Corpus::remove (QueueCorpus::remove delegates to it)
Remove(ref) ==
    /\ ~Panicked
    /\ LET r == RemoveResult(entries, ref) IN
        /\ entries' = r.entries
        /\ ret' = Ret("remove", IF IsSome(r.tc) THEN "Some" ELSE "None",
                      Some(ref), r.tc)
    /\ fresh' = Other
    /\ UNCHANGED << backend, dirPath, wrapped, corpusPos, pos, cycles >>

\* Corpus::random_entry (QueueCorpus::random_entry delegates to it)
RandomEntry ==
    /\ ~Panicked
    /\ IF Count(entries) = 0
       THEN ret' = Ret("random_entry", "Empty", None, None)
       ELSE \E id \in Below(Len(entries)) :
                ret' = IF GetPanics(entries, id)
                       THEN Ret("random_entry", "panic", None, None)
                       ELSE Ret("random_entry", "Ok", Some(id), None)
    /\ fresh' = Other
    /\ UNCHANGED << backend, dirPath, wrapped, entries, corpusPos, pos, cycles >>

\* Corpus::load_testcase
LoadTestcase(idx) ==
    /\ ~Panicked
    /\ IF GetPanics(entries, idx)
       THEN /\ ret' = Ret("load_testcase", "panic", None, None)
            /\ entries' = entries
       ELSE LET testcase == Get(entries, idx)
                lds == IF ~IsSome(testcase.input) /\ IsSome(testcase.filename)
                       THEN LoadFromDisk(Unwrap(testcase.filename))
                       ELSE { [res |-> "Ok", tc |-> None] }
            IN \E ld \in lds :
                LET r == LoadTestcaseResult(entries, idx, ld) IN
                    /\ entries' = r.entries
                    /\ ret' = Ret("load_testcase", r.res, Some(idx), None)
    /\ fresh' = Other
    /\ UNCHANGED << backend, dirPath, wrapped, corpusPos, pos, cycles >>

\* Mutant of the backends' next: on an empty corpus the cursor is reset.
BackendNext_ResetsPos ==
    /\ IF Count(entries) = 0
       THEN /\ ret' = Ret("next", "Empty", None, None)
            /\ corpusPos' = 0
       ELSE \E id \in Below(Len(entries)) :
                /\ corpusPos' = id
                /\ ret' = IF GetPanics(entries, id)
                          THEN Ret("next", "panic", None, None)
                          ELSE Ret("next", "Ok", Some(id), None)
    /\ fresh' = Other
    /\ UNCHANGED << backend, dirPath, wrapped, entries, pos, cycles >>

\* InMemoryCorpus::next and OnDiskCorpus::next (the same code)
BackendNext ==
    /\ IF Count(entries) = 0
       THEN /\ ret' = Ret("next", "Empty", None, None)
            /\ UNCHANGED corpusPos
       ELSE \E id \in Below(Len(entries)) :
                /\ corpusPos' = id
                /\ ret' = IF GetPanics(entries, id)
                          THEN Ret("next", "panic", None, None)
                          ELSE Ret("next", "Ok", Some(id), None)
    /\ fresh' = Other
    /\ UNCHANGED << backend, dirPath, wrapped, entries, pos, cycles >>

InMemoryNext == ~Panicked /\ ~wrapped /\ backend = "InMemoryCorpus" /\ BackendNext

OnDiskNext == ~Panicked /\ ~wrapped /\ backend = "OnDiskCorpus" /\ BackendNext

\* QueueCorpus::next
QueueNext ==
    /\ ~Panicked
    /\ wrapped
    /\ LET r == QueueNextResult(pos, cycles, Count(entries)) IN
        /\ r.pos <= MaxPos \/ Count(entries) > 0
        /\ r.cycles <= MaxCycles
        /\ pos' = r.pos
        /\ cycles' = r.cycles
        /\ ret' = IF r.res = "Empty"
                  THEN Ret("next", "Empty", None, None)
                  ELSE IF GetPanics(entries, r.pos - 1)
                       THEN Ret("next", "panic", None, None)
                       ELSE Ret("next", "Ok", Some(r.pos - 1), None)
    /\ fresh' = IF fresh.phase \in { "adds", "nexts" }
                   /\ Len(entries) >= 1 /\ fresh.nexts <= Len(entries)
                THEN [phase |-> "nexts", nexts |-> fresh.nexts + 1]
                ELSE Other
    /\ UNCHANGED << backend, dirPath, wrapped, entries, corpusPos >>

\* current_testcase of a corpus whose cursor gives the index i (None
\* where the subtraction or the indexing panics)
CurrentTestcase(i) ==
    /\ ret' = IF IsSome(i)
              THEN Ret("current_testcase", "Ok", i, None)
              ELSE Ret("current_testcase", "panic", None, None)
    /\ fresh' = Other
    /\ UNCHANGED << backend, dirPath, wrapped, entries, corpusPos, pos, cycles >>

\* InMemoryCorpus::current_testcase
InMemoryCurrentTestcase ==
    /\ ~Panicked /\ ~wrapped /\ backend = "InMemoryCorpus"
    /\ CurrentTestcase(BackendCurrentIdx(corpusPos, Len(entries)))

\* OnDiskCorpus::current_testcase
OnDiskCurrentTestcase ==
    /\ ~Panicked /\ ~wrapped /\ backend = "OnDiskCorpus"
    /\ CurrentTestcase(BackendCurrentIdx(corpusPos, Len(entries)))

\* QueueCorpus::current_testcase
QueueCurrentTestcase ==
    /\ ~Panicked /\ wrapped
    /\ CurrentTestcase(QueueCurrentIdx(pos, Len(entries)))

\* ------------------------------------------------------- specifications
NoHistory == UNCHANGED << lastNext, assigned >>

Next ==
    \/ \E t \in NewTestcases :
            Len(entries) < MaxEntries /\ CorpusAdd(t) /\ NoHistory
    \/ \E t \in NewTestcases :
            Len(entries) < MaxEntries /\ OnDiskAdd(t) /\ NoHistory
    \/ \E idx \in 0 .. MaxEntries + 1, t \in NewTestcases :
            Replace(idx, t) /\ NoHistory
    \/ \E ref \in Refs : Remove(ref) /\ NoHistory
    \/ RandomEntry /\ NoHistory
    \/ \E idx \in 0 .. MaxEntries : LoadTestcase(idx) /\ NoHistory
    \/ InMemoryNext /\ NoHistory
    \/ OnDiskNext /\ NoHistory
    \/ QueueNext /\ NoHistory
    \/ InMemoryCurrentTestcase /\ NoHistory
    \/ OnDiskCurrentTestcase /\ NoHistory
    \/ QueueCurrentTestcase /\ NoHistory

Spec == Init /\ [][Next]_vars

\* The same calls, with the two histories recorded: a successful next
\* records the index it returned, an add that assigns a filename records
\* the filename.
RecordNext ==
    lastNext' = IF ret'.res = "Ok" THEN ret'.idx ELSE lastNext
RecordAssigned(t) ==
    assigned' = IF IsSome(t.filename) \/ ret'.res # "Ok" THEN assigned
                ELSE assigned \cup { Unwrap(IdFilename(Unwrap(dirPath),
                                                       Len(entries))) }

NextHistory ==
    \/ \E t \in NewTestcases :
            Len(entries) < MaxEntries /\ CorpusAdd(t) /\ NoHistory
    \/ \E t \in NewTestcases :
            /\ Len(entries) < MaxEntries
            /\ OnDiskAdd(t) /\ RecordAssigned(t) /\ UNCHANGED lastNext
    \/ \E idx \in 0 .. MaxEntries + 1, t \in NewTestcases :
            Replace(idx, t) /\ NoHistory
    \/ \E ref \in Refs : Remove(ref) /\ NoHistory
    \/ RandomEntry /\ NoHistory
    \/ \E idx \in 0 .. MaxEntries : LoadTestcase(idx) /\ NoHistory
    \/ InMemoryNext /\ RecordNext /\ UNCHANGED assigned
    \/ OnDiskNext /\ RecordNext /\ UNCHANGED assigned
    \/ QueueNext /\ RecordNext /\ UNCHANGED assigned
    \/ InMemoryCurrentTestcase /\ NoHistory
    \/ OnDiskCurrentTestcase /\ NoHistory
    \/ QueueCurrentTestcase /\ NoHistory

SpecHistory == Init /\ [][NextHistory]_vars

\* The calls that add, remove and select entries (all but replace and
\* load_testcase, which rewrite an entry in place), on longer vectors.
NextOrder ==
    \/ \E t \in NewTestcases :
            Len(entries) < MaxOrderEntries /\ CorpusAdd(t) /\ NoHistory
    \/ \E t \in NewTestcases :
            Len(entries) < MaxOrderEntries /\ OnDiskAdd(t) /\ NoHistory
    \/ \E ref \in Refs : Remove(ref) /\ NoHistory
    \/ RandomEntry /\ NoHistory
    \/ InMemoryNext /\ NoHistory
    \/ OnDiskNext /\ NoHistory
    \/ QueueNext /\ NoHistory
    \/ InMemoryCurrentTestcase /\ NoHistory
    \/ OnDiskCurrentTestcase /\ NoHistory
    \/ QueueCurrentTestcase /\ NoHistory

SpecOrder == Init /\ [][NextOrder]_vars

\* =============================================================== claims

\* C1: a freshly constructed QueueCorpus that has had n >= 1 entries added
\* and nothing else done to it has cycles = 0 after each of the first n
\* calls of next, and cycles = 1 and pos = 1 after call n + 1.
C1_CyclesAfterTraversal ==
    (wrapped /\ fresh.phase = "nexts") =>
        /\ fresh.nexts <= Len(entries) => cycles = 0
        /\ fresh.nexts = Len(entries) + 1 => (cycles = 1 /\ pos = 1)

\* C1 witness: two entries added, then three calls of next.
C1_Witness ==
    /\ wrapped /\ fresh.phase = "nexts"
    /\ Len(entries) = 2 /\ fresh.nexts = 3

\* C2: next of a QueueCorpus on an empty corpus fails with Empty and
\* changes nothing: pos, cycles and the entries are as before the call.
C2_EmptyNextChangesNothing ==
    [][ (wrapped /\ Count(entries) = 0 /\ ret'.op = "next") =>
            /\ ret'.res = "Empty"
            /\ pos' = pos /\ cycles' = cycles /\ entries' = entries ]_vars

\* C3: the cursor of a QueueCorpus stays within 0 .. count().
C3_PosWithinCount ==
    wrapped => (0 <= pos /\ pos <= Count(entries))

\* C4: on a non-empty corpus next and random_entry return an index below
\* count() (the reference they return is the one to the slot at that
\* index); neither changes the entries, so count() is the one at the call.
C4_IndexBelowCount ==
    (ret.op \in { "next", "random_entry" } /\ Count(entries) > 0) =>
        (ret.res = "Ok" /\ Unwrap(ret.idx) \in 0 .. Count(entries) - 1)

\* C4 witness: a next of a QueueCorpus of two entries that wrapped and
\* returned index 0.
C4_Witness ==
    /\ wrapped /\ ret.op = "next" /\ ret.res = "Ok"
    /\ Count(entries) = 2 /\ cycles = 1 /\ ret.idx = Some(0)

\* C5: of two consecutive successful calls of QueueCorpus::next, the
\* second returns the index after the first's, modulo count(), out of the
\* same entries; so n consecutive calls return each of 0 .. n-1 once, in
\* increasing order modulo n, and with one entry always that entry.
C5_RoundRobin ==
    [][ (wrapped /\ ret.op = "next" /\ ret.res = "Ok"
                 /\ ret'.op = "next" /\ ret'.res = "Ok") =>
            /\ entries' = entries
            /\ Unwrap(ret'.idx) = (Unwrap(ret.idx) + 1) % Count(entries) ]_vars

\* C5 witness: three calls of next in a row on two entries, the third
\* back at index 0.
C5_Witness ==
    /\ wrapped /\ fresh.phase = "nexts" /\ fresh.nexts = 3
    /\ Count(entries) = 2 /\ ret.op = "next" /\ ret.idx = Some(0)

\* C6: replace(idx, t) returns KeyNotFound and changes nothing for every
\* idx >= count(), and succeeds for every idx < count().
C6_ReplaceOutOfBounds ==
    [][ ret'.op = "replace" =>
            IF Unwrap(ret'.idx) >= Count(entries)
            THEN ret'.res = "KeyNotFound" /\ entries' = entries
            ELSE ret'.res = "Ok" ]_vars

\* C7: a filename that OnDiskCorpus::add assigns was never assigned by an
\* earlier add of the same corpus.
C7_AssignedNamesDistinct ==
    [][ (backend = "OnDiskCorpus" /\ ret'.op = "add" /\ ret'.res = "Ok"
            /\ ~IsSome(Unwrap(ret'.tc).filename)) =>
            Unwrap(entries'[Len(entries')].filename) \notin assigned ]_vars

\* C8: remove of a reference to an entry of the corpus returns that
\* entry, and a second remove of the same reference returns None and
\* removes nothing.
C8_NoDoubleRemoval ==
    [][ ret'.op = "remove" =>
            /\ \A i \in 0 .. Len(entries) - 1 :
                 ret'.idx = Some(SlotAddr(i)) =>
                    (ret'.res = "Some" /\ ret'.tc = Some(Get(entries, i)))
            /\ (ret.op = "remove" /\ ret.res = "Some" /\ ret'.idx = ret.idx) =>
                    (ret'.res = "None" /\ entries' = entries) ]_vars

\* C9: once a next has succeeded, current_testcase returns the index (and
\* so the reference) that the most recent successful next returned.
C9_CurrentIsLastNext ==
    (ret.op = "current_testcase" /\ IsSome(lastNext)) =>
        (ret.res = "Ok" /\ ret.idx = lastNext)

\* C10: load_testcase(idx) of an entry with neither input nor filename
\* fails with IllegalState, and a load_testcase that fails leaves the
\* entries and the cursors as they were.
C10_LoadFailureAtomic ==
    [][ (ret'.op = "load_testcase" /\ ret'.res # "panic") =>
            LET testcase == Get(entries, Unwrap(ret'.idx)) IN
            /\ (~IsSome(testcase.input) /\ ~IsSome(testcase.filename)) =>
                    ret'.res = "IllegalState"
            /\ ret'.res # "Ok" =>
                    /\ ret'.res \in { "IllegalState", "PersistenceError" }
                    /\ entries' = entries
                    /\ pos' = pos /\ cycles' = cycles
                    /\ corpusPos' = corpusPos ]_vars

\* C10 witness: a load has failed on a QueueCorpus whose cursor has moved.
C10_Witness ==
    /\ ret.op = "load_testcase"
    /\ ret.res \in { "IllegalState", "PersistenceError" }
    /\ wrapped /\ pos >= 1 /\ Count(entries) = 2

\* C11: replace(idx, t) with idx < count() succeeds; afterwards get(idx)
\* is t, count() is unchanged and so is the entry at every other index.
C11_ReplaceThenGet ==
    [][ (ret'.op = "replace" /\ Unwrap(ret'.idx) < Count(entries)) =>
            LET idx == Unwrap(ret'.idx) IN
            /\ ret'.res = "Ok"
            /\ Count(entries') = Count(entries)
            /\ ~GetPanics(entries', idx)
            /\ Get(entries', idx) = Unwrap(ret'.tc)
            /\ \A j \in 0 .. Count(entries) - 1 :
                 j # idx => Get(entries', j) = Get(entries, j) ]_vars

\* C11 witness: the second of two different entries has been replaced.
C11_Witness ==
    /\ ret.op = "replace" /\ ret.res = "Ok" /\ ret.idx = Some(1)
    /\ Count(entries) = 2 /\ Get(entries, 0) # Get(entries, 1)
    /\ Get(entries, 1) = Unwrap(ret.tc)

\* C12: on an empty corpus random_entry and the backends' next return
\* Empty, with no index drawn, and leave the entries and pos as they were.
C12_EmptyBackendFails ==
    [][ (Count(entries) = 0
            /\ (ret'.op = "random_entry" \/ (ret'.op = "next" /\ ~wrapped))) =>
            /\ ret'.res = "Empty"
            /\ ret'.idx = None
            /\ entries' = entries
            /\ corpusPos' = corpusPos ]_vars

\* C12 witness: a backend's next has failed on a corpus emptied after
\* its cursor had moved.
C12_Witness ==
    /\ ~wrapped /\ ret.op = "next" /\ ret.res = "Empty"
    /\ Count(entries) = 0 /\ corpusPos = 1

\* The names id_<k> under the directory fancy/path, written out.
ExpectedIdFilename(k) ==
    << "fancy/path/id_0", "fancy/path/id_1", "fancy/path/id_2",
       "fancy/path/id_3", "fancy/path/id_4" >>[k + 1]

\* C13: OnDiskCorpus::add stores a testcase that has a filename as it is,
\* and stores one that has none under dir_path/id_<k>, k the count before
\* the add; it stores in every call but that of a testcase without a
\* filename into a directory whose path is no string.
C13_OnDiskAddNames ==
    [][ (backend = "OnDiskCorpus" /\ ret'.op = "add") =>
            LET t == Unwrap(ret'.tc)
                dir == Unwrap(dirPath)
            IN
            /\ ret'.res = "Ok" <=> (IsSome(t.filename) \/ dir.utf8)
            /\ ret'.res = "Ok" =>
                LET stored == Get(entries', Count(entries)) IN
                IF IsSome(t.filename)
                THEN stored = t
                ELSE /\ dir.str = "fancy/path"
                     /\ stored.filename =
                            Some(ExpectedIdFilename(Count(entries)))
                     /\ stored.input = t.input ]_vars

\* C13 witness: a QueueCorpus over an OnDiskCorpus, whose second entry
\* came without a filename and is stored as id_1.
C13_Witness ==
    /\ backend = "OnDiskCorpus" /\ wrapped /\ ret.op = "add"
    /\ ~IsSome(Unwrap(ret.tc).filename)
    /\ Count(entries) = 2
    /\ Get(entries, 1).filename = Some("fancy/path/id_1")

\* C14: cycles never decreases, changes only in a next of the
\* QueueCorpus, and by exactly 1 when it does.
C14_CyclesMonotonic ==
    [][ /\ cycles' >= cycles
        /\ cycles' # cycles =>
                (wrapped /\ ret'.op = "next" /\ cycles' = cycles + 1) ]_vars

\* C14 witness: a failing next after the count had risen to 1.
C14_Witness ==
    /\ wrapped /\ cycles = 1
    /\ ret.op = "next" /\ ret.res = "Empty"

\* C15: next increments cycles exactly in the calls that return index 0
\* after the preceding successful next returned the last index,
\* count() - 1.
C15_CyclesCountTraversals ==
    [][ (wrapped /\ ret'.op = "next") =>
            (cycles' # cycles <=>
                (/\ ret'.res = "Ok" /\ ret'.idx = Some(0)
                 /\ lastNext = Some(Count(entries) - 1))) ]_vars

\* C16: remove of the entry at index i shortens the entries by one, keeps
\* the entries before i in place and moves those after i down by one;
\* remove of a reference to no entry changes nothing.
C16_RemoveKeepsOrder ==
    [][ ret'.op = "remove" =>
            LET ref == Unwrap(ret'.idx)
                n == Count(entries)
            IN
            /\ \A i \in 0 .. n - 1 :
                 SlotAddr(i) = ref =>
                    /\ Count(entries') = n - 1
                    /\ \A j \in 0 .. i - 1 :
                         Get(entries', j) = Get(entries, j)
                    /\ \A j \in i + 1 .. n - 1 :
                         Get(entries', j - 1) = Get(entries, j)
            /\ (\A i \in 0 .. n - 1 : SlotAddr(i) # ref) =>
                    (ret'.res = "None" /\ entries' = entries) ]_vars

\* C16 witness: the first of three entries has been removed from a
\* QueueCorpus whose cursor had moved, and the two that remain differ
\* from each other.
C16_Witness ==
    /\ ret.op = "remove" /\ ret.res = "Some" /\ ret.idx = Some(SlotAddr(0))
    /\ Count(entries) = 2 /\ Get(entries, 0) # Get(entries, 1)
    /\ wrapped /\ pos = 3

\* C17: add always succeeds and appends: it returns, lengthens the
\* entries by one, leaves every entry stored before at its index and puts
\* the new testcase last (with the filename an OnDiskCorpus gives it when
\* it has none).
C17_AddAppends ==
    [][ ret'.op = "add" =>
            LET t == Unwrap(ret'.tc)
                n == Count(entries)
            IN
            /\ ret'.res = "Ok"
            /\ Count(entries') = n + 1
            /\ \A j \in 0 .. n - 1 : Get(entries', j) = Get(entries, j)
            /\ Get(entries', n).input = t.input
            /\ IF backend = "InMemoryCorpus" \/ IsSome(t.filename)
               THEN Get(entries', n) = t
               ELSE IsSome(Get(entries', n).filename) ]_vars

\* C18: through a QueueCorpus, next and current_testcase leave the
\* entries as they are; add, remove, replace, random_entry and
\* load_testcase leave pos and cycles as they are and change the entries
\* as the backend's operation does.
C18_WrapperKeepsStorage ==
    [][ wrapped =>
        /\ ret'.op \in { "next", "current_testcase" } => entries' = entries
        /\ ret'.op \in { "add", "remove", "replace", "random_entry",
                         "load_testcase" } =>
                (pos' = pos /\ cycles' = cycles)
        /\ ret'.op = "add" =>
                entries' =
                    IF backend = "InMemoryCorpus"
                    THEN Append(entries, Unwrap(ret'.tc))
                    ELSE LET r == OnDiskStored(Unwrap(dirPath), entries,
                                               Unwrap(ret'.tc))
                         IN IF r.res = "Ok" THEN Append(entries, r.tc)
                            ELSE entries
        /\ ret'.op = "remove" =>
                entries' = RemoveResult(entries, Unwrap(ret'.idx)).entries
        /\ ret'.op = "replace" =>
                entries' = ReplaceResult(entries, Unwrap(ret'.idx),
                                         Unwrap(ret'.tc)).entries
        /\ ret'.op = "random_entry" => entries' = entries
        /\ ret'.op = "load_testcase" =>
                IF ret'.res = "panic" THEN entries' = entries
                ELSE LET idx == Unwrap(ret'.idx)
                         fn == Get(entries, idx).filename
                         lds == IF IsSome(fn) THEN LoadFromDisk(Unwrap(fn))
                                ELSE { [res |-> "Ok", tc |-> None] }
                     IN \E ld \in lds :
                            /\ LoadTestcaseResult(entries, idx, ld).res = ret'.res
                            /\ LoadTestcaseResult(entries, idx, ld).entries = entries'
      ]_vars

\* C18 witness: an entry has been removed through a QueueCorpus whose
\* cursor stays where it was, beyond the one entry left.
C18_Witness ==
    /\ wrapped /\ ret.op = "remove" /\ ret.res = "Some"
    /\ pos = 2 /\ Count(entries) = 1

\* C19: pos of a QueueCorpus is at least 1 after every call of next,
\* successful or not, stays at least 1 from then on, and is changed by
\* no other call (so it is 0 exactly while next has not been called).
C19_PosPositiveAfterNext ==
    [][ /\ (wrapped /\ ret'.op = "next") => pos' >= 1
        /\ pos >= 1 => pos' >= 1
        /\ pos' # pos => (wrapped /\ ret'.op = "next") ]_vars

\* C19 witness: current_testcase has read pos - 1 after the cursor had
\* wrapped.
C19_Witness ==
    /\ wrapped /\ ret.op = "current_testcase" /\ ret.res = "Ok"
    /\ pos = 1 /\ cycles = 1

\* Every stored entry has a filename.
AllNamed(es) == \A i \in 1 .. Len(es) : IsSome(es[i].filename)

\* C20: in an OnDiskCorpus whose entries all have a filename (as in the
\* empty one), add and remove leave it so, and load_testcase does not
\* fail with IllegalState.
C20_OnDiskEntriesNamed ==
    [][ (backend = "OnDiskCorpus" /\ AllNamed(entries)) =>
            /\ ret'.op \in { "add", "remove" } => AllNamed(entries')
            /\ ret'.op = "load_testcase" => ret'.res # "IllegalState" ]_vars

\* C20 witness: load_testcase has run on an entry of an OnDiskCorpus
\* that has no input and the filename add assigned.
C20_Witness ==
    /\ backend = "OnDiskCorpus" /\ ret.op = "load_testcase"
    /\ ret.res = "PersistenceError"
    /\ Count(entries) = 2
    /\ Get(entries, 1).filename = Some("fancy/path/id_1")

====
